---------------------------- MODULE Spec2Model ----------------------------
(***************************************************************************)
(* The runtime value model of the grass Sass compiler: src/value/mod.rs    *)
(* (Value, its equality and inequality, ordering, nullity, CSS             *)
(* serialization and inspection, the selector bridge and the quoted-string *)
(* escaper) and src/value/number.rs (Number, an exact rational, its        *)
(* arithmetic and its decimal display).                                    *)
(*                                                                         *)
(* The functions are pure.  The state machine is a caller: from the idle   *)
(* state it invokes one function on arguments drawn from bounded sets and  *)
(* records the invocation in `call` and what came back in `ret`.  The      *)
(* escaper is also followed invocation by invocation: while it runs, `ret` *)
(* holds the invocation about to start.                                    *)
(*                                                                         *)
(* Text is a sequence of Unicode code points (Rust's `char as u32`).       *)
(***************************************************************************)
EXTENDS Integers, Sequences, FiniteSets, TLC

VARIABLES call, ret

vars == <<call, ret>>

---------------------------------------------------------------------------
(* Bounds of the model.                                                    *)

\* longest list / ArgList handed to the one-argument functions
MaxLen == 2
\* longest list / ArgList handed to the two-argument functions
MaxEqLen == 2
\* largest numerator and denominator of a Number argument
MaxNum == 4
MaxDen == 3
\* longest text of a String argument drawn from Alphabet
MaxTextLen == 4
\* longest list handed to to_selector, at either level
MaxSelectorLen == 2

---------------------------------------------------------------------------
(* Characters the code names, as code points.                              *)

Apostrophe == 39
DoubleQuote == 34
Backslash == 92
Newline == 10
Space == 32
Tab == 9

\* "!important"
Text_important == <<33, 105, 109, 112, 111, 114, 116, 97, 110, 116>>
\* "true"
Text_true == <<116, 114, 117, 101>>
\* "false"
Text_false == <<102, 97, 108, 115, 101>>
\* "null"
Text_null == <<110, 117, 108, 108>>
\* "NaN"
Text_NaN == <<78, 97, 78>>
\* " isn't a valid CSS value."
Text_not_valid_css == <<32, 105, 115, 110, 39, 116, 32, 97, 32, 118, 97, 108, 105, 100, 32, 67, 83, 83, 32, 118, 97, 108, 117, 101, 46>>
\* "() isn't a valid CSS value."
Text_empty_arglist_not_valid == <<40, 41, 32, 105, 115, 110, 39, 116, 32, 97, 32, 118, 97, 108, 105, 100, 32, 67, 83, 83, 32, 118, 97, 108, 117, 101, 46>>
\* "Undefined operation \""
Text_undefined_operation == <<85, 110, 100, 101, 102, 105, 110, 101, 100, 32, 111, 112, 101, 114, 97, 116, 105, 111, 110, 32, 34>>
\* "Incompatible units "
Text_incompatible_units == <<73, 110, 99, 111, 109, 112, 97, 116, 105, 98, 108, 101, 32, 117, 110, 105, 116, 115, 32>>
\* " and "
Text_and == <<32, 97, 110, 100, 32>>
\* "get-function(\""
Text_get_function == <<103, 101, 116, 45, 102, 117, 110, 99, 116, 105, 111, 110, 40, 34>>
\* ", "
Text_comma_space == <<44, 32>>
\* ": "
Text_colon_space == <<58, 32>>

\* " is not a valid selector: it must be a string, a list of strings, or a list of lists of strings."
Text_not_valid_selector == <<32, 105, 115, 32, 110, 111, 116, 32, 97, 32, 118, 97, 108, 105, 100, 32, 115, 101, 108, 101, 99, 116, 111, 114, 58, 32, 105, 116, 32, 109, 117, 115, 116, 32, 98, 101, 32, 97, 32, 115, 116, 114, 105, 110, 103, 44, 32, 97, 32, 108, 105, 115, 116, 32, 111, 102, 32, 115, 116, 114, 105, 110, 103, 115, 44, 32, 111, 114, 32, 97, 32, 108, 105, 115, 116, 32, 111, 102, 32, 108, 105, 115, 116, 115, 32, 111, 102, 32, 115, 116, 114, 105, 110, 103, 115, 46>>

\* the concatenation of a sequence of texts
RECURSIVE Concat(_)
Concat(parts) ==
    IF parts = <<>> THEN <<>> ELSE Head(parts) \o Concat(Tail(parts))

\* [T]::join: the texts of `parts` with `sep` between neighbours
RECURSIVE Join(_, _)
Join(parts, sep) ==
    IF parts = <<>> THEN <<>>
    ELSE IF Len(parts) = 1 THEN Head(parts)
    ELSE Head(parts) \o sep \o Join(Tail(parts), sep)

SeqsUpTo(S, n) == UNION {[1..k -> S] : k \in 0..n}

---------------------------------------------------------------------------
(* Number: an exact rational in lowest terms with a positive denominator   *)
(* (num_rational::BigRational).                                            *)

Abs(x) == IF x < 0 THEN -x ELSE x

RECURSIVE Gcd(_, _)
Gcd(x, y) == IF y = 0 THEN x ELSE Gcd(y, x % y)

\* Number::ratio
ratio(a, b) ==
    LET g == Gcd(Abs(a), Abs(b))
        s == IF b < 0 THEN -1 ELSE 1
    IN  [numer |-> (s * a) \div g, denom |-> (s * b) \div g]

\* From<integer> for Number
from_integer(i) == [numer |-> i, denom |-> 1]

\* BigRational::to_integer: truncation toward zero
to_integer(x) ==
    IF x.numer >= 0 THEN x.numer \div x.denom
    ELSE -((-x.numer) \div x.denom)

\* BigRational::fract: the value less its truncation; it has the value's sign
fract(x) == ratio(x.numer - to_integer(x) * x.denom, x.denom)

\* BigRational::round: to the nearest integer, halves away from zero
round(x) ==
    LET twice == 2 * Abs(x.numer) + x.denom
        mag   == twice \div (2 * x.denom)
    IN  from_integer(IF x.numer < 0 THEN -mag ELSE mag)

\* Mul for Number
mul(x, y) == ratio(x.numer * y.numer, x.denom * y.denom)

\* Ord for Number (derived): exact rational comparison
number_cmp(x, y) ==
    LET l == x.numer * y.denom
        r == y.numer * x.denom
    IN  IF l < r THEN "Less" ELSE IF l = r THEN "Equal" ELSE "Greater"

PRECISION == 10

\* Display for BigInt: decimal digits, a leading '-' when negative
RECURSIVE NatText(_)
NatText(n) ==
    IF n < 10 THEN <<48 + n>> ELSE NatText(n \div 10) \o <<48 + (n % 10)>>

BigIntText(i) == IF i < 0 THEN <<45>> \o NatText(-i) ELSE NatText(i)

\* the digit loop of Display for Number: up to `left` more digits of `frac`,
\* then one rounded digit if a fraction remains
RECURSIVE fmt_digits(_, _)
fmt_digits(frac, left) ==
    IF left = 0
    THEN IF frac.numer # 0
         THEN BigIntText(to_integer(round(mul(frac, from_integer(10)))))
         ELSE <<>>
    ELSE LET f10  == mul(frac, from_integer(10))
             rest == fract(f10)
         IN  BigIntText(to_integer(f10))
             \o (IF rest.numer = 0 THEN <<>> ELSE fmt_digits(rest, left - 1))

\* Display for Number
number_fmt(val) ==
    LET frac == fract(val)
    IN  BigIntText(to_integer(val))
        \o (IF frac.numer # 0 THEN <<46>> \o fmt_digits(frac, PRECISION) ELSE <<>>)

\* Number::to_string(is_compressed): the flag never changes numeric formatting
number_to_string(num, is_compressed) == number_fmt(num)

\* Number::inspect
number_inspect(num) == number_fmt(num)

---------------------------------------------------------------------------
(* Unit: a simple unit, the dimensionless unit, or a compound unit.        *)

UnitNone == [tag |-> "None", of |-> <<>>]
UnitPx   == [tag |-> "Px", of |-> <<>>]
UnitPt   == [tag |-> "Pt", of |-> <<>>]
UnitS    == [tag |-> "S", of |-> <<>>]
UnitIn   == [tag |-> "In", of |-> <<>>]
UnitCm   == [tag |-> "Cm", of |-> <<>>]
UnitPc   == [tag |-> "Pc", of |-> <<>>]
\* px*s
UnitMul  == [tag |-> "Mul", of |-> <<"Px", "S">>]
\* px/s
UnitDiv  == [tag |-> "Div", of |-> <<"Px", "S">>]

\* the name of a simple unit
unit_name(tag) ==
    CASE tag = "Px" -> <<112, 120>>
      [] tag = "Pt" -> <<112, 116>>
      [] tag = "S"  -> <<115>>
      [] tag = "In" -> <<105, 110>>
      [] tag = "Cm" -> <<99, 109>>
      [] tag = "Pc" -> <<112, 99>>
      [] OTHER      -> <<>>

\* Display for Unit
unit_fmt(unit) ==
    CASE unit.tag = "Mul" ->
            Join([i \in 1..Len(unit.of) |-> unit_name(unit.of[i])], <<42>>)
      [] unit.tag = "Div" ->
            Join([i \in 1..Len(unit.of) |-> unit_name(unit.of[i])], <<47>>)
      [] OTHER -> unit_name(unit.tag)

\* the compatibility class of a unit
unit_kind(unit) ==
    CASE unit.tag \in {"Px", "Pt", "In", "Cm", "Pc"} -> "Absolute"
      [] unit.tag = "S"            -> "Time"
      [] unit.tag = "None"         -> "None"
      [] OTHER                     -> "Other"

\* Unit::comparable: the dimensionless unit is compatible with everything, a
\* unit of a conversion class with the units of its class, and any other unit
\* (a compound one) with itself only
comparable(unit, unit2) ==
    \/ unit2 = UnitNone
    \/ unit = UnitNone
    \/ IF unit_kind(unit) = "Other" THEN unit = unit2
       ELSE unit_kind(unit) = unit_kind(unit2)

\* Add for Number, Div for Number
add(x, y) == ratio(x.numer * y.denom + y.numer * x.denom, x.denom * y.denom)
div(x, y) == ratio(x.numer * y.denom, x.denom * y.numer)

\* the length of one absolute unit in inches: 1in = 2.54cm = 6pc = 72pt = 96px
unit_inches(unit) ==
    CASE unit.tag = "In" -> from_integer(1)
      [] unit.tag = "Cm" -> ratio(50, 127)
      [] unit.tag = "Pc" -> ratio(1, 6)
      [] unit.tag = "Pt" -> ratio(1, 72)
      [] unit.tag = "Px" -> ratio(1, 96)

\* the factor that rescales a value in `from` into `to`
conversion_factor(from, to) ==
    IF from # to /\ unit_kind(from) = "Absolute" /\ unit_kind(to) = "Absolute"
    THEN div(unit_inches(from), unit_inches(to))
    ELSE from_integer(1)

\* Number::convert
convert(num, from, to) == mul(num, conversion_factor(from, to))

---------------------------------------------------------------------------
(* Value (mod.rs:27-42).  Option<Number> is <<>> (None) or <<n>> (Some).   *)

None == <<>>
Some(x) == <<x>>

Important == [kind |-> "Important"]
True == [kind |-> "True"]
False == [kind |-> "False"]
Null == [kind |-> "Null"]
Dimension(num, unit, flag) ==
    [kind |-> "Dimension", num |-> num, unit |-> unit, flag |-> flag]
List(items, sep, brackets) ==
    [kind |-> "List", items |-> items, sep |-> sep, brackets |-> brackets]
Color(text) == [kind |-> "Color", text |-> text]
String(text, quote) == [kind |-> "String", text |-> text, quote |-> quote]
\* SassMap: the key/value pairs in insertion order
Map(pairs) == [kind |-> "Map", pairs |-> pairs]
\* Vec<Spanned<Value>>
ArgList(items) == [kind |-> "ArgList", items |-> items]
FunctionRef(name) == [kind |-> "FunctionRef", name |-> name]

\* codemap::Spanned
Spanned(node, span) == [node |-> node, span |-> span]

RECURSIVE eq(_, _)
RECURSIVE is_null(_)
RECURSIVE to_css_string(_, _, _)
RECURSIVE inspect(_, _)

---------------------------------------------------------------------------
(* impl PartialEq for Value (mod.rs:44-125).                               *)

\* eq_Dimension converting the left operand's unit into the right one's
eq_Dimension_reversed(n, unit, n2, unit2) ==
    IF ~comparable(unit, unit2) THEN FALSE
    ELSE IF unit = unit2 THEN n = n2
    ELSE IF unit = UnitNone \/ unit2 = UnitNone THEN FALSE
    ELSE n = convert(n2, unit, unit2)

\* Dimension(Some(n), unit, _) against Dimension(Some(n2), unit2, _)
eq_Dimension(n, unit, n2, unit2) ==
    IF ~comparable(unit, unit2) THEN FALSE
    ELSE IF unit = unit2 THEN n = n2
    ELSE IF unit = UnitNone \/ unit2 = UnitNone THEN FALSE
    ELSE n = convert(n2, unit2, unit)

\* eq_Dimension_None comparing field by field, as a derived PartialEq would
eq_Dimension_None_derived(self, other) == other = self

\* Dimension(None, ..) against anything
eq_Dimension_None(self, other) == FALSE

\* List against List
eq_List(list1, sep1, brackets1, list2, sep2, brackets2) ==
    IF sep1 # sep2 \/ brackets1 # brackets2 \/ Len(list1) # Len(list2)
    THEN FALSE
    ELSE \A i \in 1..Len(list1) : eq(list1[i], list2[i])

\* PartialEq for Spanned<Value> (derived): the node and the span
eq_Spanned(x, y) == eq(x.node, y.node) /\ x.span = y.span

\* ArgList against ArgList: Vec<Spanned<Value>> == Vec<Spanned<Value>>
eq_ArgList_ArgList(list1, list2) ==
    /\ Len(list1) = Len(list2)
    /\ \A i \in 1..Len(list1) : eq_Spanned(list1[i], list2[i])

\* ArgList against List(list2, ListSeparator::Comma, ..)
eq_ArgList_List(list1, other) ==
    IF other.sep # "Comma" THEN FALSE
    ELSE IF Len(list1) # Len(other.items) THEN FALSE
    ELSE \A i \in 1..Len(list1) : eq(list1[i].node, other.items[i])

\* PartialEq for SassMap
eq_Map(pairs1, pairs2) ==
    /\ Len(pairs1) = Len(pairs2)
    /\ \A i \in 1..Len(pairs1) :
          eq(pairs1[i][1], pairs2[i][1]) /\ eq(pairs1[i][2], pairs2[i][2])

eq(self, other) ==
    CASE self.kind = "String" ->
            other.kind = "String" /\ self.text = other.text
      [] self.kind = "Dimension" ->
            IF self.num = None THEN eq_Dimension_None(self, other)
            ELSE IF other.kind = "Dimension" /\ other.num # None
                 THEN eq_Dimension(self.num[1], self.unit, other.num[1], other.unit)
                 ELSE FALSE
      [] self.kind = "List" ->
            IF other.kind = "List"
            THEN eq_List(self.items, self.sep, self.brackets,
                         other.items, other.sep, other.brackets)
            ELSE FALSE
      [] self.kind \in {"Null", "True", "False", "Important"} ->
            other.kind = self.kind
      [] self.kind = "FunctionRef" ->
            other.kind = "FunctionRef" /\ self.name = other.name
      [] self.kind = "Map" ->
            other.kind = "Map" /\ eq_Map(self.pairs, other.pairs)
      [] self.kind = "Color" ->
            other.kind = "Color" /\ self.text = other.text
      [] self.kind = "ArgList" ->
            CASE other.kind = "ArgList" -> eq_ArgList_ArgList(self.items, other.items)
              [] other.kind = "List"    -> eq_ArgList_List(self.items, other)
              [] OTHER                  -> FALSE

---------------------------------------------------------------------------
(* Value::not_equals (mod.rs:411-448).                                     *)

RECURSIVE not_equals(_, _)

\* Dimension(Some(n), unit, _) against Dimension(Some(n2), unit2, _)
not_equals_Dimension(n, unit, n2, unit2) ==
    IF ~comparable(unit, unit2) THEN TRUE
    ELSE IF unit = unit2 THEN n # n2
    ELSE IF unit = UnitNone \/ unit2 = UnitNone THEN TRUE
    ELSE n # convert(n2, unit2, unit)

\* not_equals_List asking every pair of elements to differ
not_equals_List_every(list1, sep1, brackets1, list2, sep2, brackets2) ==
    IF sep1 # sep2 \/ brackets1 # brackets2 \/ Len(list1) # Len(list2)
    THEN TRUE
    ELSE \A i \in 1..Len(list1) : not_equals(list1[i], list2[i])

\* List against List: true at the first pair of elements that differ
not_equals_List(list1, sep1, brackets1, list2, sep2, brackets2) ==
    IF sep1 # sep2 \/ brackets1 # brackets2 \/ Len(list1) # Len(list2)
    THEN TRUE
    ELSE \E i \in 1..Len(list1) : not_equals(list1[i], list2[i])

not_equals(self, other) ==
    CASE self.kind = "String" ->
            IF other.kind = "String" THEN self.text # other.text ELSE TRUE
      [] self.kind = "Dimension" /\ self.num # None ->
            IF other.kind = "Dimension" /\ other.num # None
            THEN not_equals_Dimension(self.num[1], self.unit,
                                      other.num[1], other.unit)
            ELSE TRUE
      [] self.kind = "List" ->
            IF other.kind = "List"
            THEN not_equals_List(self.items, self.sep, self.brackets,
                                 other.items, other.sep, other.brackets)
            ELSE TRUE
      \* s => s != other: PartialEq::ne, which is !eq
      [] OTHER -> ~eq(self, other)

---------------------------------------------------------------------------
(* Value::is_null (mod.rs:196-206).                                        *)

\* is_null with the guard of its third arm not looking at the brackets:
\* Value::List(v, ..) if v.is_empty() => false
is_null_any_empty_list(self) ==
    CASE self.kind = "Null" -> TRUE
      [] self.kind = "String" -> self.quote = "None" /\ self.text = <<>>
      [] self.kind = "List" ->
            IF self.items = <<>> THEN FALSE
            ELSE \A i \in 1..Len(self.items) : is_null(self.items[i])
      [] self.kind = "ArgList" ->
            IF self.items = <<>> THEN FALSE
            ELSE \A i \in 1..Len(self.items) : is_null(self.items[i].node)
      [] OTHER -> FALSE

is_null(self) ==
    CASE self.kind = "Null" -> TRUE
      [] self.kind = "String" -> self.quote = "None" /\ self.text = <<>>
      [] self.kind = "List" ->
            IF self.brackets = "Bracketed" /\ self.items = <<>> THEN FALSE
            ELSE \A i \in 1..Len(self.items) : is_null(self.items[i])
      [] self.kind = "ArgList" ->
            IF self.items = <<>> THEN FALSE
            ELSE \A i \in 1..Len(self.items) : is_null(self.items[i].node)
      [] OTHER -> FALSE

---------------------------------------------------------------------------
(* visit_quoted_string (mod.rs:129-193).                                   *)

\* utils::hex_char_for: the lower-case hexadecimal digit of a number below 16
hex_char_for(number) == IF number < 10 THEN 48 + number ELSE 87 + number

\* char::is_ascii_hexdigit
is_ascii_hexdigit(c) == c \in (48..57) \cup (65..70) \cup (97..102)

\* the low control range the escaper matches: '\x00'..='\x08' | '\x0A'..='\x1F'
is_escaped_control(c) == c \in (0..8) \cup (10..31)

\* control_escape writing the separating space before any next character
control_escape_space_before_any(c, rest) ==
    <<Backslash>>
    \o (IF c > 15 THEN <<hex_char_for(c \div 16)>> ELSE <<>>)
    \o <<hex_char_for(c % 16)>>
    \o (IF rest # <<>> THEN <<Space>> ELSE <<>>)

\* the escape of a control character followed by `rest`, the unread input
control_escape(c, rest) ==
    <<Backslash>>
    \o (IF c > 15 THEN <<hex_char_for(c \div 16)>> ELSE <<>>)
    \o <<hex_char_for(c % 16)>>
    \o (IF rest # <<>> /\ (is_ascii_hexdigit(Head(rest)) \/ Head(rest) = Space
                            \/ Head(rest) = Tab)
        THEN <<Space>> ELSE <<>>)

\* the while loop, from the i-th character on; `restart` is the early return
\* that abandons the buffer, as it then stands, and calls the function again
RECURSIVE quoted_loop(_, _, _, _, _, _)
quoted_loop(string, force_double_quote, i, buffer, has_single_quote, has_double_quote) ==
    IF i > Len(string)
    THEN [restart |-> FALSE, buffer |-> buffer, has_double_quote |-> has_double_quote]
    ELSE LET c == string[i]
             abandon == [restart |-> TRUE, buffer |-> buffer,
                         has_double_quote |-> has_double_quote]
         IN
         CASE c = Apostrophe ->
                IF force_double_quote
                THEN quoted_loop(string, force_double_quote, i + 1,
                                 buffer \o <<Apostrophe>>,
                                 has_single_quote, has_double_quote)
                ELSE IF has_double_quote THEN abandon
                ELSE quoted_loop(string, force_double_quote, i + 1,
                                 buffer \o <<Apostrophe>>, TRUE, has_double_quote)
           [] c = DoubleQuote ->
                IF force_double_quote
                THEN quoted_loop(string, force_double_quote, i + 1,
                                 buffer \o <<Backslash, DoubleQuote>>,
                                 has_single_quote, has_double_quote)
                ELSE IF has_single_quote THEN abandon
                ELSE quoted_loop(string, force_double_quote, i + 1,
                                 buffer \o <<DoubleQuote>>, has_single_quote, TRUE)
           [] is_escaped_control(c) ->
                quoted_loop(string, force_double_quote, i + 1,
                            buffer \o control_escape(c, SubSeq(string, i + 1, Len(string))),
                            has_single_quote, has_double_quote)
           [] c = Backslash ->
                quoted_loop(string, force_double_quote, i + 1,
                            buffer \o <<Backslash, Backslash>>,
                            has_single_quote, has_double_quote)
           [] OTHER ->
                quoted_loop(string, force_double_quote, i + 1, buffer \o <<c>>,
                            has_single_quote, has_double_quote)

RECURSIVE visit_quoted_string(_, _)

\* visit_quoted_string always wrapping in double quotes
visit_quoted_string_double(force_double_quote, string) ==
    LET scan == quoted_loop(string, force_double_quote, 1,
                            IF force_double_quote THEN <<DoubleQuote>> ELSE <<>>,
                            FALSE, FALSE)
    IN  IF scan.restart THEN visit_quoted_string(TRUE, string)
        ELSE IF force_double_quote THEN scan.buffer \o <<DoubleQuote>>
        ELSE <<DoubleQuote>> \o scan.buffer \o <<DoubleQuote>>

\* what one call appends to `buf`
visit_quoted_string(force_double_quote, string) ==
    LET scan == quoted_loop(string, force_double_quote, 1,
                            IF force_double_quote THEN <<DoubleQuote>> ELSE <<>>,
                            FALSE, FALSE)
    IN  IF scan.restart THEN visit_quoted_string(TRUE, string)
        ELSE IF force_double_quote THEN scan.buffer \o <<DoubleQuote>>
        ELSE LET quote == IF scan.has_double_quote THEN Apostrophe ELSE DoubleQuote
             IN  <<quote>> \o scan.buffer \o <<quote>>

\* restart_buf with the in-progress buffer pushed before the function is
\* called again
restart_buf_flushed(buf, buffer) == buf \o buffer

\* `buf` at the early return `return visit_quoted_string(buf, true, string)`:
\* nothing has been pushed to it, the local buffer is dropped
restart_buf(buf, buffer) == buf

\* one invocation of visit_quoted_string, the first or the one the early
\* return makes: `pass` is the invocation about to run
visit_quoted_string_pass(pass, string) ==
    LET scan == quoted_loop(string, pass.force_double_quote, 1,
                            IF pass.force_double_quote THEN <<DoubleQuote>> ELSE <<>>,
                            FALSE, FALSE)
    IN  IF scan.restart
        THEN [tag |-> "Pass", force_double_quote |-> TRUE,
              passes |-> pass.passes + 1,
              buf |-> restart_buf(pass.buf, scan.buffer)]
        ELSE [tag |-> "Ok",
              text |-> pass.buf \o visit_quoted_string(pass.force_double_quote, string),
              passes |-> pass.passes + 1]

---------------------------------------------------------------------------
(* Value::to_css_string (mod.rs:208-313) and Value::inspect (452-517).     *)

\* SassResult
Ok(text) == [tag |-> "Ok", text |-> text]
Err(msg, span) == [tag |-> "Err", msg |-> msg, span |-> span]

\* collect::<SassResult<Vec<_>>>(): the first error in order, or every text
collect(results) ==
    IF \E i \in DOMAIN results : results[i].tag = "Err"
    THEN results[CHOOSE i \in DOMAIN results :
                    /\ results[i].tag = "Err"
                    /\ \A j \in 1..(i - 1) : results[j].tag = "Ok"]
    ELSE Ok([i \in DOMAIN results |-> results[i].text])

\* ListSeparator::as_str, ListSeparator::as_compressed_str
as_str(sep) == IF sep = "Comma" THEN <<44, 32>> ELSE <<32>>
as_compressed_str(sep) == IF sep = "Comma" THEN <<44>> ELSE <<32>>

\* Display for Color
color_fmt(self) == self.text

\* css_Dimension refusing every absent number
css_Dimension_NaN_invalid(num, unit, span, is_compressed) ==
    IF num = None THEN Err(Text_NaN \o unit_fmt(unit) \o Text_not_valid_css, span)
    ELSE IF unit.tag \in {"Mul", "Div"}
    THEN Err(number_to_string(num[1], is_compressed) \o unit_fmt(unit)
             \o Text_not_valid_css, span)
    ELSE Ok(number_to_string(num[1], is_compressed) \o unit_fmt(unit))

\* the Dimension arm
css_Dimension(num, unit, span, is_compressed) ==
    IF unit.tag \in {"Mul", "Div"}
    THEN IF num # None
         THEN Err(number_to_string(num[1], is_compressed) \o unit_fmt(unit)
                  \o Text_not_valid_css, span)
         ELSE Err(Text_NaN \o unit_fmt(unit) \o Text_not_valid_css, span)
    ELSE IF num # None
         THEN Ok(number_to_string(num[1], is_compressed) \o unit_fmt(unit))
         ELSE Ok(Text_NaN \o unit_fmt(unit))

\* the Map and FunctionRef arm
css_Map_FunctionRef(self, span) ==
    LET shown == inspect(self, span)
    IN  IF shown.tag = "Err" THEN shown
        ELSE Err(shown.text \o Text_not_valid_css, span)

not_null(x) == ~is_null(x)
node_not_null(x) == ~is_null(x.node)

\* the List arm
css_List(vals, sep, brackets, span, is_compressed) ==
    LET kept == SelectSeq(vals, not_null)
        each == collect([i \in 1..Len(kept) |->
                            to_css_string(kept[i], span, is_compressed)])
        joined == Join(each.text,
                       IF is_compressed THEN as_compressed_str(sep) ELSE as_str(sep))
    IN  IF each.tag = "Err" THEN each
        ELSE IF brackets = "None" THEN Ok(joined)
        ELSE Ok(<<91>> \o joined \o <<93>>)

\* the unquoted String arm: the loop from the i-th character on
RECURSIVE unquoted_loop(_, _, _, _)
unquoted_loop(string, i, buf, after_newline) ==
    IF i > Len(string) THEN buf
    ELSE LET c == string[i]
         IN  CASE c = Newline -> unquoted_loop(string, i + 1, buf \o <<Space>>, TRUE)
               [] c = Space ->
                    unquoted_loop(string, i + 1,
                                  IF ~after_newline THEN buf \o <<Space>> ELSE buf,
                                  after_newline)
               [] OTHER -> unquoted_loop(string, i + 1, buf \o <<c>>, FALSE)

\* css_unquoted with after_newline starting out true
css_unquoted_after_newline(string) == unquoted_loop(string, 1, <<>>, TRUE)

css_unquoted(string) == unquoted_loop(string, 1, <<>>, FALSE)

\* the ArgList arms
css_ArgList(args, span, is_compressed) ==
    IF args = <<>> THEN Err(Text_empty_arglist_not_valid, span)
    ELSE LET kept == SelectSeq(args, node_not_null)
             each == collect([i \in 1..Len(kept) |->
                                 to_css_string(kept[i].node, span, is_compressed)])
         IN  IF each.tag = "Err" THEN each
             ELSE Ok(Join(each.text,
                          IF is_compressed THEN as_compressed_str("Comma")
                          ELSE as_str("Comma")))

to_css_string(self, span, is_compressed) ==
    CASE self.kind = "Important" -> Ok(Text_important)
      [] self.kind = "Dimension" ->
            css_Dimension(self.num, self.unit, span, is_compressed)
      [] self.kind \in {"Map", "FunctionRef"} -> css_Map_FunctionRef(self, span)
      [] self.kind = "List" ->
            css_List(self.items, self.sep, self.brackets, span, is_compressed)
      [] self.kind = "Color" -> Ok(color_fmt(self))
      [] self.kind = "String" ->
            IF self.quote = "None" THEN Ok(css_unquoted(self.text))
            ELSE Ok(visit_quoted_string(FALSE, self.text))
      [] self.kind = "True" -> Ok(Text_true)
      [] self.kind = "False" -> Ok(Text_false)
      [] self.kind = "Null" -> Ok(<<>>)
      [] self.kind = "ArgList" -> css_ArgList(self.items, span, is_compressed)

\* inspect_List rendering a one-element list like any other: the texts joined
inspect_List_plain_singleton(v, sep, brackets, span) ==
    IF v = <<>> THEN (IF brackets = "None" THEN Ok(<<40, 41>>) ELSE Ok(<<91, 93>>))
    ELSE LET each == collect([i \in 1..Len(v) |-> inspect(v[i], span)])
         IN  IF each.tag = "Err" THEN each
             ELSE IF brackets = "None" THEN Ok(Join(each.text, as_str(sep)))
             ELSE Ok(<<91>> \o Join(each.text, as_str(sep)) \o <<93>>)

\* the List arms of inspect
inspect_List(v, sep, brackets, span) ==
    IF v = <<>> THEN (IF brackets = "None" THEN Ok(<<40, 41>>) ELSE Ok(<<91, 93>>))
    ELSE IF Len(v) = 1
    THEN LET x == inspect(v[1], span)
         IN  IF x.tag = "Err" THEN x
             ELSE IF brackets = "None"
                  THEN (IF sep = "Space" THEN x
                        ELSE Ok(<<40>> \o x.text \o <<44, 41>>))
                  ELSE (IF sep = "Space" THEN Ok(<<91>> \o x.text \o <<93>>)
                        ELSE Ok(<<91>> \o x.text \o <<44, 93>>))
    ELSE LET each == collect([i \in 1..Len(v) |-> inspect(v[i], span)])
         IN  IF each.tag = "Err" THEN each
             ELSE IF brackets = "None" THEN Ok(Join(each.text, as_str(sep)))
             ELSE Ok(<<91>> \o Join(each.text, as_str(sep)) \o <<93>>)

\* the Map arm of inspect
inspect_Map(pairs, span) ==
    LET one(k, v) == IF k.tag = "Err" THEN k
                     ELSE IF v.tag = "Err" THEN v
                     ELSE Ok(k.text \o Text_colon_space \o v.text)
        each == collect([i \in 1..Len(pairs) |->
                            one(inspect(pairs[i][1], span), inspect(pairs[i][2], span))])
    IN  IF each.tag = "Err" THEN each
        ELSE Ok(<<40>> \o Join(each.text, Text_comma_space) \o <<41>>)

\* the ArgList arms of inspect
inspect_ArgList(args, span) ==
    IF args = <<>> THEN Ok(<<40, 41>>)
    ELSE LET kept == SelectSeq(args, node_not_null)
             each == collect([i \in 1..Len(kept) |-> inspect(kept[i].node, span)])
         IN  IF each.tag = "Err" THEN each
             ELSE IF Len(args) = 1
                  THEN Ok(<<40>> \o Join(each.text, Text_comma_space) \o <<44, 41>>)
                  ELSE Ok(Join(each.text, Text_comma_space))

inspect(self, span) ==
    CASE self.kind = "List" -> inspect_List(self.items, self.sep, self.brackets, span)
      [] self.kind = "FunctionRef" -> Ok(Text_get_function \o self.name \o <<34, 41>>)
      [] self.kind = "Null" -> Ok(Text_null)
      [] self.kind = "Map" -> inspect_Map(self.pairs, span)
      [] self.kind = "Dimension" ->
            IF self.num # None
            THEN Ok(number_inspect(self.num[1]) \o unit_fmt(self.unit))
            ELSE Ok(Text_NaN \o unit_fmt(self.unit))
      [] self.kind = "ArgList" -> inspect_ArgList(self.items, span)
      [] self.kind \in {"Important", "True", "False", "Color", "String"} ->
            to_css_string(self, span, FALSE)

---------------------------------------------------------------------------
(* Value::cmp (mod.rs:366-409).                                            *)

\* Ok(Ordering)
OkOrdering(ordering) == [tag |-> "Ok", ordering |-> ordering]
\* todo!(): the call panics
Panic == [tag |-> "Panic"]

\* Display for Op
op_fmt(op) == IF op = "LessThan" THEN <<60>> ELSE <<62>>

\* the two `_` arms: Err("Undefined operation \"{} {} {}\".")
undefined_operation(self, other, span, op) ==
    LET l == inspect(self, span)
        r == inspect(other, span)
    IN  IF l.tag = "Err" THEN l
        ELSE IF r.tag = "Err" THEN r
        ELSE Err(Text_undefined_operation \o l.text \o <<Space>> \o op_fmt(op)
                 \o <<Space>> \o r.text \o <<34, 46>>, span)

\* cmp_Dimension comparing the numbers as they are, whatever the units
cmp_Dimension_unconverted(num, unit, num2, unit2, span) ==
    IF ~comparable(unit, unit2)
    THEN Err(Text_incompatible_units \o unit_fmt(unit2) \o Text_and
             \o unit_fmt(unit) \o <<46>>, span)
    ELSE OkOrdering(number_cmp(num, num2))

\* Dimension(Some(num), unit, _) against Dimension(Some(num2), unit2, _)
cmp_Dimension(num, unit, num2, unit2, span) ==
    IF ~comparable(unit, unit2)
    THEN Err(Text_incompatible_units \o unit_fmt(unit2) \o Text_and
             \o unit_fmt(unit) \o <<46>>, span)
    ELSE IF unit = unit2 \/ unit = UnitNone \/ unit2 = UnitNone
    THEN OkOrdering(number_cmp(num, num2))
    ELSE OkOrdering(number_cmp(num, convert(num2, unit2, unit)))

cmp(self, other, span, op) ==
    IF self.kind = "Dimension"
    THEN IF self.num = None THEN Panic
         ELSE IF other.kind = "Dimension"
              THEN IF other.num = None THEN Panic
                   ELSE cmp_Dimension(self.num[1], self.unit,
                                      other.num[1], other.unit, span)
              ELSE undefined_operation(self, other, span, op)
    ELSE undefined_operation(self, other, span, op)

---------------------------------------------------------------------------
(* Unit-aware addition of two Dimensions that carry a number, as the tests *)
(* of tests/units.rs evaluate and print it.                                *)

\* the sum, in the left operand's unit unless that one is dimensionless
add_Dimension(num, unit, num2, unit2, span) ==
    IF ~comparable(unit, unit2)
    THEN Err(Text_incompatible_units \o unit_fmt(unit2) \o Text_and
             \o unit_fmt(unit) \o <<46>>, span)
    ELSE IF unit = unit2 \/ unit2 = UnitNone
    THEN [tag |-> "Ok", value |-> Dimension(Some(add(num, num2)), unit, TRUE)]
    ELSE IF unit = UnitNone
    THEN [tag |-> "Ok", value |-> Dimension(Some(add(num, num2)), unit2, TRUE)]
    ELSE [tag |-> "Ok",
          value |-> Dimension(Some(add(num, convert(num2, unit2, unit))), unit, TRUE)]

\* the declaration value `self + other` as it is printed
add_and_print(self, other, span) ==
    LET sum == add_Dimension(self.num[1], self.unit, other.num[1], other.unit, span)
    IN  IF sum.tag = "Err" THEN sum ELSE to_css_string(sum.value, span, FALSE)

---------------------------------------------------------------------------
(* Value::to_selector (mod.rs:536-571), Value::selector_string (573-608).  *)

RECURSIVE selector_string(_)

\* one element of a comma-separated list
selector_complex(complex) ==
    IF complex.kind = "String" THEN Some(complex.text)
    ELSE IF complex.kind = "List" /\ complex.sep = "Space"
    THEN selector_string(complex)
    ELSE None

\* one element of a space-separated list
selector_compound(compound) ==
    IF compound.kind = "String" THEN Some(compound.text) ELSE None

\* selector_string answering None for a space-separated list
selector_string_comma_only(self) ==
    CASE self.kind = "String" -> Some(self.text)
      [] self.kind = "List" /\ self.items # <<>> /\ self.sep = "Comma" ->
            LET each == [i \in 1..Len(self.items) |-> selector_complex(self.items[i])]
            IN  IF \E i \in 1..Len(each) : each[i] = None THEN None
                ELSE Some(Join([i \in 1..Len(each) |-> each[i][1]], as_str(self.sep)))
      [] OTHER -> None

\* Ok(Some(text)) is Some(text), Ok(None) is None; it has no Err of its own
selector_string(self) ==
    CASE self.kind = "String" -> Some(self.text)
      [] self.kind = "List" /\ self.items # <<>> ->
            LET each == [i \in 1..Len(self.items) |->
                            IF self.sep = "Comma" THEN selector_complex(self.items[i])
                            ELSE selector_compound(self.items[i])]
            IN  IF \E i \in 1..Len(each) : each[i] = None THEN None
                ELSE Some(Join([i \in 1..Len(each) |-> each[i][1]], as_str(self.sep)))
      [] OTHER -> None

\* the selector text handed to Parser::parse_selector
Parse(string) == [tag |-> "Parse", text |-> string]

\* to_selector up to the call of the selector parser
to_selector(self, span_before, name) ==
    LET string == selector_string(self)
        shown == inspect(self, span_before)
    IN  IF string # None THEN Parse(string[1])
        ELSE IF shown.tag = "Err" THEN shown
        ELSE Err(<<36>> \o name \o Text_colon_space \o shown.text
                 \o Text_not_valid_selector, span_before)

---------------------------------------------------------------------------
(* The arguments the caller draws from.                                    *)

Spans == {0, 1}
Ops == {"LessThan", "GreaterThan"}
Separators == {"Comma", "Space"}
BracketKinds == {"None", "Bracketed"}
QuoteKinds == {"None", "Quoted"}

Numbers == {ratio(n, d) : n \in 0..MaxNum, d \in 1..MaxDen}
OptionNumbers == {None} \cup {Some(x) : x \in Numbers}

\* ', ", \, newline, space, a hex digit (a), a letter that is none (z), U+001F
Alphabet == {Apostrophe, DoubleQuote, Backslash, Newline, Space, 97, 122, 31}
Texts == SeqsUpTo(Alphabet, MaxTextLen)
StringValues == {String(t, q) : t \in Texts, q \in QuoteKinds}

\* quoted strings around each character up to U+001F and the backslash: alone,
\* after a letter, and before a hex digit, a space, a tab, a letter that is no
\* hex digit, an apostrophe, a double quote and another control character
ControlTexts ==
    {pre \o <<c>> \o post :
        c \in (0..31) \cup {Backslash},
        pre \in {<<>>, <<122>>},
        post \in {<<>>, <<97>>, <<Space>>, <<Tab>>, <<122>>, <<Apostrophe>>,
                  <<DoubleQuote>>, <<1>>, <<Apostrophe, DoubleQuote>>}}
ControlStrings == {String(t, "Quoted") : t \in ControlTexts}

One == from_integer(1)
\* "a"
TextA == <<97>>

\* dimensions for equality: every number, simple and compound units, both flags
EqDimensions ==
    {Dimension(num, unit, flag) : num \in OptionNumbers,
        unit \in {UnitNone, UnitPx, UnitPt, UnitS, UnitMul}, flag \in BOOLEAN}
\* dimensions for ordering
CmpDimensions ==
    {Dimension(num, unit, FALSE) : num \in OptionNumbers,
        unit \in {UnitNone, UnitPx, UnitPt, UnitS, UnitMul}}

\* one value or more of every kind
Leaves ==
    {Important, True, False, Null, Color(<<114, 101, 100>>), FunctionRef(<<102>>),
     Map(<<>>), Map(<< <<String(TextA, "Quoted"), Null>> >>),
     String(<<>>, "None"), String(<<>>, "Quoted"),
     String(TextA, "None"), String(TextA, "Quoted")}
    \cup {Dimension(num, unit, FALSE) : num \in {None, Some(One), Some(ratio(3, 2))},
            unit \in {UnitNone, UnitPx, UnitMul, UnitDiv}}

\* the elements of the lists handed to the one-argument functions: leaves, the
\* empty lists and the one-element lists
ElementLeaves ==
    {Null, String(<<>>, "None"), String(TextA, "Quoted"),
     Dimension(Some(One), UnitPx, FALSE), Map(<<>>)}
InnerLeaves == {Null, String(TextA, "Quoted")}
InnerLists ==
    {List(<<>>, sep, br) : sep \in Separators, br \in BracketKinds}
    \cup {List(<<x>>, sep, br) : x \in InnerLeaves, sep \in Separators,
            br \in BracketKinds}
    \cup {ArgList(<<>>)}
    \cup {ArgList(<<Spanned(x, 0)>>) : x \in InnerLeaves}
Elements == ElementLeaves \cup InnerLists

\* the ArgList of `items`, every element captured at `span`
ArgListAt(items, span) == ArgList([i \in DOMAIN items |-> Spanned(items[i], span)])

Values ==
    Leaves
    \cup {List(items, sep, br) : items \in SeqsUpTo(Elements, MaxLen),
            sep \in Separators, br \in BracketKinds}
    \cup {ArgListAt(items, 0) : items \in SeqsUpTo(Elements, MaxLen)}

\* the values compared with each other
PairLeaves ==
    {Null, Dimension(Some(One), UnitPx, FALSE), Dimension(None, UnitPx, FALSE)}
PairValues ==
    PairLeaves
    \cup {List(items, sep, br) : items \in SeqsUpTo(PairLeaves, MaxEqLen),
            sep \in Separators, br \in BracketKinds}
    \cup {ArgListAt(items, span) : items \in SeqsUpTo(PairLeaves, MaxEqLen),
            span \in Spans}

\* the numbers displayed: every sign, integers, fractions that end within ten
\* digits and fractions that do not (1/7; 5/21, whose eleventh digit rounds up
\* to ten; 177/127, the inches in 1in + 1cm)
FmtNumbers ==
    {ratio(n, d) : n \in (-MaxNum)..MaxNum, d \in 1..MaxDen}
    \cup {ratio(1, 7), ratio(-1, 7), ratio(5, 21), ratio(177, 127)}

\* the operands of an addition: 1, 10 and 1/2 in every simple unit
AddDimensions ==
    {Dimension(Some(num), unit, FALSE) :
        num \in {One, from_integer(10), ratio(1, 2)},
        unit \in {UnitNone, UnitPx, UnitPt, UnitIn, UnitCm, UnitPc, UnitS}}

\* the values handed to to_selector: strings, lists of strings and of lists
\* of strings, and lists with an element that is no string
SelectorStrings == {String(TextA, "None"), String(<<98>>, "Quoted")}
SelectorInner ==
    {List(items, "Space", "None") :
        items \in SeqsUpTo({String(TextA, "None"), Null}, MaxSelectorLen)}
    \cup {List(<<String(TextA, "None")>>, "Comma", "None"),
          List(<<String(TextA, "None")>>, "Space", "Bracketed")}
SelectorElements == SelectorStrings \cup {Null} \cup SelectorInner
SelectorValues ==
    Leaves
    \cup {List(items, sep, br) : items \in SeqsUpTo(SelectorElements, MaxSelectorLen),
            sep \in Separators, br \in BracketKinds}
    \cup {ArgListAt(items, 0) : items \in SeqsUpTo(SelectorStrings, MaxSelectorLen)}
\* argument names: "a", "sel"
Names == {TextA, <<115, 101, 108>>}

\* 4px, 3pt and the dimensionless 3, alone, in a list and in a list in a list
ConvertibleLeaves ==
    {Dimension(Some(from_integer(4)), UnitPx, FALSE),
     Dimension(Some(from_integer(3)), UnitPt, FALSE),
     Dimension(Some(from_integer(3)), UnitNone, FALSE)}
ConvertibleLists ==
    {List(<<x>>, "Comma", "None") : x \in ConvertibleLeaves}
    \cup {List(<<List(<<x, x>>, "Space", "None")>>, "Comma", "None") :
            x \in ConvertibleLeaves}

EqArguments ==
    (EqDimensions \X EqDimensions) \cup (PairValues \X PairValues)
    \cup (Leaves \X Leaves) \cup (ConvertibleLists \X ConvertibleLists)
CmpArguments ==
    (CmpDimensions \X CmpDimensions) \cup (Leaves \X Leaves)
    \cup (PairLeaves \X PairValues) \cup (PairValues \X PairLeaves)

---------------------------------------------------------------------------
(* The caller.                                                             *)

\* what a call that returns a bool hands back
Bool(b) == [tag |-> "bool", bool |-> b]

Init ==
    /\ call = [fn |-> "idle"]
    /\ ret = [tag |-> "none"]

Call_is_null ==
    /\ call.fn = "idle"
    /\ \E v \in Values \cup StringValues :
          /\ call' = [fn |-> "is_null", self |-> v]
          /\ ret' = Bool(is_null(v))

Call_eq ==
    /\ call.fn = "idle"
    /\ \E p \in EqArguments :
          /\ call' = [fn |-> "eq", self |-> p[1], other |-> p[2]]
          /\ ret' = Bool(eq(p[1], p[2]))

Call_not_equals ==
    /\ call.fn = "idle"
    /\ \E p \in EqArguments :
          /\ call' = [fn |-> "not_equals", self |-> p[1], other |-> p[2]]
          /\ ret' = Bool(not_equals(p[1], p[2]))

Call_cmp ==
    /\ call.fn = "idle"
    /\ \E args \in CmpArguments \X Spans \X Ops :
          /\ call' = [fn |-> "cmp", self |-> args[1][1], other |-> args[1][2],
                      span |-> args[2], op |-> args[3]]
          /\ ret' = cmp(args[1][1], args[1][2], args[2], args[3])

Call_to_css_string ==
    /\ call.fn = "idle"
    /\ \E args \in (Values \cup StringValues \cup ControlStrings) \X Spans \X BOOLEAN :
          /\ call' = [fn |-> "to_css_string", self |-> args[1], span |-> args[2],
                      is_compressed |-> args[3]]
          /\ ret' = to_css_string(args[1], args[2], args[3])

Call_inspect ==
    /\ call.fn = "idle"
    /\ \E args \in Values \X Spans :
          /\ call' = [fn |-> "inspect", self |-> args[1], span |-> args[2]]
          /\ ret' = inspect(args[1], args[2])

\* Display for Number: what `write!(f, "{}", number)` writes
Call_fmt ==
    /\ call.fn = "idle"
    /\ \E val \in FmtNumbers :
          /\ call' = [fn |-> "fmt", val |-> val]
          /\ ret' = Ok(number_fmt(val))

Call_add ==
    /\ call.fn = "idle"
    /\ \E args \in AddDimensions \X AddDimensions \X Spans :
          /\ call' = [fn |-> "add", self |-> args[1], other |-> args[2],
                      span |-> args[3]]
          /\ ret' = add_and_print(args[1], args[2], args[3])

\* the Quoted String arm of to_css_string enters visit_quoted_string with a
\* fresh buf and force_double_quote = false
Call_visit_quoted_string ==
    /\ call.fn = "idle"
    /\ \E string \in Texts \cup ControlTexts :
          /\ call' = [fn |-> "visit_quoted_string", string |-> string]
          /\ ret' = [tag |-> "Pass", force_double_quote |-> FALSE, passes |-> 0,
                     buf |-> <<>>]

\* the invocation runs: it returns, or abandons its buffer and starts over
Pass_visit_quoted_string ==
    /\ call.fn = "visit_quoted_string"
    /\ ret.tag = "Pass"
    /\ ret' = visit_quoted_string_pass(ret, call.string)
    /\ UNCHANGED call

Call_to_selector ==
    /\ call.fn = "idle"
    /\ \E args \in SelectorValues \X Spans \X Names :
          /\ call' = [fn |-> "to_selector", self |-> args[1],
                      span_before |-> args[2], name |-> args[3]]
          /\ ret' = to_selector(args[1], args[2], args[3])

Next ==
    \/ Call_is_null
    \/ Call_eq
    \/ Call_not_equals
    \/ Call_cmp
    \/ Call_to_css_string
    \/ Call_inspect
    \/ Call_fmt
    \/ Call_add
    \/ Call_visit_quoted_string
    \/ Pass_visit_quoted_string
    \/ Call_to_selector

Spec == Init /\ [][Next]_vars

---------------------------------------------------------------------------
(* Claims.                                                                 *)

IsNumber(v) == v.kind = "Dimension" /\ v.num # None
IsNaN(v) == v.kind = "Dimension" /\ v.num = None

\* C1: is_null is this predicate: Null is null; an unquoted empty string is
\* null; an empty bracketed list is not; a non-bracketed list (the empty one
\* included) is null iff every element is; an empty ArgList is not; a
\* non-empty ArgList is null iff every element is; True, False, Important,
\* Dimension, Color, Map, FunctionRef and quoted or non-empty strings are not.
C1_IsNullPredicate ==
    call.fn = "is_null" =>
        LET v == call.self
        IN  /\ v.kind = "Null" => ret = Bool(TRUE)
            /\ (v.kind = "String" /\ v.quote = "None" /\ v.text = <<>>) => ret = Bool(TRUE)
            /\ (v.kind = "List" /\ v.brackets = "Bracketed" /\ v.items = <<>>)
                  => ret = Bool(FALSE)
            /\ (v.kind = "List" /\ v.brackets = "None")
                  => ret = Bool(\A i \in 1..Len(v.items) : is_null(v.items[i]))
            /\ (v.kind = "ArgList" /\ v.items = <<>>) => ret = Bool(FALSE)
            /\ (v.kind = "ArgList" /\ v.items # <<>>)
                  => ret = Bool(\A i \in 1..Len(v.items) : is_null(v.items[i].node))
            /\ v.kind \in {"True", "False", "Important", "Dimension", "Color",
                           "Map", "FunctionRef"} => ret = Bool(FALSE)
            /\ (v.kind = "String" /\ (v.quote = "Quoted" \/ v.text # <<>>))
                  => ret = Bool(FALSE)

\* is_null was called on a non-bracketed list holding an empty non-bracketed
\* list and an unquoted empty string, and said it is null
C1_Witness ==
    /\ call.fn = "is_null"
    /\ call.self = List(<<List(<<>>, "Space", "None"), String(<<>>, "None")>>,
                        "Comma", "None")
    /\ ret = Bool(TRUE)

\* C2: two Dimensions that carry a number are equal iff their units are
\* compatible and either the units are identical and the numbers equal, or the
\* units differ, neither is dimensionless, and the left number equals the right
\* one converted into the left unit; units that differ with exactly one of
\* them dimensionless are never equal.
C2_DimensionEquality ==
    (call.fn = "eq" /\ IsNumber(call.self) /\ IsNumber(call.other)) =>
        LET n == call.self.num[1]
            unit == call.self.unit
            n2 == call.other.num[1]
            unit2 == call.other.unit
            equal ==
                /\ comparable(unit, unit2)
                /\ \/ unit = unit2 /\ n = n2
                   \/ /\ unit # unit2
                      /\ unit # UnitNone
                      /\ unit2 # UnitNone
                      /\ n = convert(n2, unit2, unit)
        IN  /\ ret = Bool(equal)
            /\ (unit # unit2 /\ ((unit = UnitNone) # (unit2 = UnitNone)))
                  => ret = Bool(FALSE)

\* 4px was compared with 3pt and found equal
C2_Witness ==
    /\ call.fn = "eq"
    /\ call.self = Dimension(Some(from_integer(4)), UnitPx, FALSE)
    /\ call.other = Dimension(Some(from_integer(3)), UnitPt, TRUE)
    /\ ret = Bool(TRUE)

\* C3: a Dimension whose number is absent is equal to no value, on either
\* side of the comparison, itself included.
C3_NaNNeverEqual ==
    (call.fn = "eq" /\ (IsNaN(call.self) \/ IsNaN(call.other))) => ret = Bool(FALSE)

\* a NaN-like Dimension was compared with itself
C3_Witness ==
    /\ call.fn = "eq"
    /\ IsNaN(call.self)
    /\ call.other = call.self
    /\ ret = Bool(FALSE)

\* C4: two ArgLists are equal iff they have the same length and the values at
\* each position are equal, whatever the spans stored with the elements.
C4_ArgListEqIgnoresSpans ==
    (call.fn = "eq" /\ call.self.kind = "ArgList" /\ call.other.kind = "ArgList") =>
        LET equal ==
                /\ Len(call.self.items) = Len(call.other.items)
                /\ \A i \in 1..Len(call.self.items) :
                      eq(call.self.items[i].node, call.other.items[i].node)
        IN  ret = Bool(equal)

\* C5: an ArgList (left) equals a List (right) iff the List is comma-separated
\* and non-bracketed, the lengths match and the elements are pairwise equal.
C5_ArgListEqList ==
    (call.fn = "eq" /\ call.self.kind = "ArgList" /\ call.other.kind = "List") =>
        LET equal ==
                /\ call.other.sep = "Comma"
                /\ call.other.brackets = "None"
                /\ Len(call.self.items) = Len(call.other.items)
                /\ \A i \in 1..Len(call.self.items) :
                      eq(call.self.items[i].node, call.other.items[i])
        IN  ret = Bool(equal)

\* C6: a one-element comma-separated non-bracketed List (left) equals the
\* ArgList (right) of the same single value, for every value equal to itself.
C6_SingletonListEqArgList ==
    (/\ call.fn = "eq"
     /\ call.self.kind = "List" /\ call.self.sep = "Comma"
     /\ call.self.brackets = "None" /\ Len(call.self.items) = 1
     /\ call.other.kind = "ArgList" /\ Len(call.other.items) = 1
     /\ call.other.items[1].node = call.self.items[1]
     /\ eq(call.self.items[1], call.self.items[1]))
        => ret = Bool(TRUE)

\* C7: cmp never crashes; it returns the "Undefined operation" error with the
\* caller's span whenever the operands are not two Dimensions that carry a
\* number, and an Ordering only for two Dimensions that carry a number.
C7_CmpNeverCrashes ==
    call.fn = "cmp" =>
        /\ ret.tag # "Panic"
        /\ ~(IsNumber(call.self) /\ IsNumber(call.other))
              => /\ ret.tag = "Err"
                 /\ ret.span = call.span
                 /\ SubSeq(ret.msg, 1, Len(Text_undefined_operation))
                       = Text_undefined_operation
        /\ ret.tag = "Ok" => (IsNumber(call.self) /\ IsNumber(call.other))

IsCompound(unit) == unit.tag \in {"Mul", "Div"}

\* C8: to_css_string returns an error carrying the caller's span for every
\* Map, FunctionRef, empty ArgList and Dimension with a compound unit (number
\* present or absent), and succeeds with "NaN" and the unit for a Dimension
\* with a simple unit and no number; compressed or not.
C8_CssErrors ==
    call.fn = "to_css_string" =>
        LET v == call.self
        IN  /\ (\/ v.kind \in {"Map", "FunctionRef"}
                \/ v.kind = "ArgList" /\ v.items = <<>>
                \/ v.kind = "Dimension" /\ IsCompound(v.unit))
                  => (ret.tag = "Err" /\ ret.span = call.span)
            /\ (v.kind = "Dimension" /\ ~IsCompound(v.unit) /\ v.num = None)
                  => ret = Ok(Text_NaN \o unit_fmt(v.unit))

\* a NaN-like px Dimension was serialized, compressed, as "NaNpx"
C8_Witness ==
    /\ call.fn = "to_css_string"
    /\ call.self = Dimension(None, UnitPx, FALSE)
    /\ call.is_compressed
    /\ ret = Ok(<<78, 97, 78, 112, 120>>)

Contains(text, c) == \E i \in 1..Len(text) : text[i] = c

\* no control character (C0 or DEL) and no backslash
PlainText(text) ==
    \A i \in 1..Len(text) : text[i] >= 32 /\ text[i] # 127 /\ text[i] # Backslash

\* `text` with a backslash before every double quote
EscapeDoubleQuotes(text) ==
    Concat([i \in 1..Len(text) |->
        IF text[i] = DoubleQuote THEN <<Backslash, DoubleQuote>> ELSE <<text[i]>>])

\* C9: a quoted String without control characters and backslashes serializes
\* in double quotes when it holds no double quote, in single quotes when it
\* holds double quotes and no apostrophe, and in double quotes with every
\* double quote behind a backslash and the apostrophes raw when it holds both.
C9_QuoteSelection ==
    (/\ call.fn = "to_css_string"
     /\ call.self.kind = "String" /\ call.self.quote = "Quoted"
     /\ PlainText(call.self.text)) =>
        LET text == call.self.text
            single == Contains(text, Apostrophe)
            double == Contains(text, DoubleQuote)
        IN  ret = Ok(CASE single /\ ~double -> <<DoubleQuote>> \o text \o <<DoubleQuote>>
                       [] double /\ ~single -> <<Apostrophe>> \o text \o <<Apostrophe>>
                       [] single /\ double  ->
                            <<DoubleQuote>> \o EscapeDoubleQuotes(text) \o <<DoubleQuote>>
                       [] OTHER             -> <<DoubleQuote>> \o text \o <<DoubleQuote>>)

\* the quoted string "a' was serialized as "\"a'"; the double quote came first
C9_Witness ==
    /\ call.fn = "to_css_string"
    /\ call.self = String(<<DoubleQuote, 97, Apostrophe>>, "Quoted")
    /\ ret = Ok(<<DoubleQuote, Backslash, DoubleQuote, 97, Apostrophe, DoubleQuote>>)

\* the i-th character is in the run of spaces right after a newline
InRunAfterNewline(text, i) ==
    \E j \in 1..(i - 1) :
        /\ text[j] = Newline
        /\ \A k \in (j + 1)..(i - 1) : text[k] = Space

\* every newline replaced by one space, the spaces of the run right after a
\* newline left out, every other character copied
NewlinesFolded(text) ==
    Concat([i \in 1..Len(text) |->
        IF text[i] = Newline THEN <<Space>>
        ELSE IF text[i] = Space /\ InRunAfterNewline(text, i) THEN <<>>
        ELSE <<text[i]>>])

\* where the space written for the newline text[i] stands in the output
NewlineAt(text, i) == Len(NewlinesFolded(SubSeq(text, 1, i)))

\* C10 (as amended): to_css_string on an unquoted String replaces each newline
\* by one space, leaves out the spaces of the run right after a newline and
\* copies every other character in order; the space written for a newline is
\* followed by another space only when that one is written for a later newline.
C10_UnquotedNewlines ==
    (/\ call.fn = "to_css_string"
     /\ call.self.kind = "String" /\ call.self.quote = "None") =>
        LET text == call.self.text
        IN  /\ ret = Ok(NewlinesFolded(text))
            /\ \A i \in 1..Len(text) :
                  (/\ text[i] = Newline
                   /\ NewlineAt(text, i) < Len(ret.text)
                   /\ ret.text[NewlineAt(text, i) + 1] = Space)
                      => \E j \in (i + 1)..Len(text) :
                            /\ text[j] = Newline
                            /\ \A k \in (i + 1)..(j - 1) : text[k] = Space

\* newline, two spaces and a letter were serialized as one space and the letter
C10_Witness ==
    /\ call.fn = "to_css_string"
    /\ call.self = String(<<Newline, Space, Space, 97>>, "None")
    /\ ret = Ok(<<Space, 97>>)

\* C10 (as stated): the same replacement, and no doubled whitespace at a
\* newline: the space written for a newline has no space next to it.
C10_NoDoubledWhitespace ==
    (/\ call.fn = "to_css_string"
     /\ call.self.kind = "String" /\ call.self.quote = "None") =>
        LET text == call.self.text
        IN  /\ ret = Ok(NewlinesFolded(text))
            /\ \A i \in 1..Len(text) :
                  text[i] = Newline =>
                      LET at == NewlineAt(text, i)
                      IN  /\ at > 1 => ret.text[at - 1] # Space
                          /\ at < Len(ret.text) => ret.text[at + 1] # Space

IsString(v) == v.kind = "String"

\* a non-empty space-separated list of Strings
SpaceListOfStrings(v) ==
    /\ v.kind = "List" /\ v.sep = "Space" /\ v.items # <<>>
    /\ \A i \in 1..Len(v.items) : IsString(v.items[i])

\* a non-empty comma-separated list of Strings and space-separated lists of
\* Strings
CommaListOfComplex(v) ==
    /\ v.kind = "List" /\ v.sep = "Comma" /\ v.items # <<>>
    /\ \A i \in 1..Len(v.items) :
          IsString(v.items[i]) \/ SpaceListOfStrings(v.items[i])

\* the texts of a list of Strings with a space between neighbours
CompoundText(v) == Join([i \in 1..Len(v.items) |-> v.items[i].text], <<Space>>)

\* the selector text of an accepted value
SelectorText(v) ==
    CASE IsString(v) -> v.text
      [] SpaceListOfStrings(v) -> CompoundText(v)
      [] OTHER ->
            Join([i \in 1..Len(v.items) |->
                    IF IsString(v.items[i]) THEN v.items[i].text
                    ELSE CompoundText(v.items[i])], Text_comma_space)

\* the error of to_selector: "$name: <inspected value> is not a valid selector
\* ..." at the parser's span
NotAValidSelector ==
    /\ inspect(call.self, call.span_before).tag = "Ok"
    /\ ret = Err(<<36>> \o call.name \o Text_colon_space
                 \o inspect(call.self, call.span_before).text
                 \o Text_not_valid_selector, call.span_before)

\* C12 (as amended): to_selector hands selector text to the parser for a
\* String, for a non-empty space-separated list of Strings, and for a non-empty
\* comma-separated list whose elements are Strings or non-empty space-separated
\* lists of Strings, bracketed or not; for every other value it returns the
\* "is not a valid selector" error naming the argument and embedding the
\* inspected value.
C12_SelectorShapes ==
    call.fn = "to_selector" =>
        IF IsString(call.self) \/ SpaceListOfStrings(call.self)
              \/ CommaListOfComplex(call.self)
        THEN ret = Parse(SelectorText(call.self))
        ELSE NotAValidSelector

\* the space-separated list of the strings a and b went to the parser as "a b"
C12_Witness ==
    /\ call.fn = "to_selector"
    /\ call.self = List(<<String(TextA, "None"), String(<<98>>, "Quoted")>>,
                        "Space", "None")
    /\ ret = Parse(<<97, Space, 98>>)

\* C12 (as stated): selector text only for a String or a comma-separated list
\* of Strings and space-separated lists of Strings; for every other value, a
\* top-level space-separated list included, the "is not a valid selector"
\* error.
C12_SelectorShapesStated ==
    call.fn = "to_selector" =>
        IF IsString(call.self) \/ CommaListOfComplex(call.self)
        THEN ret = Parse(SelectorText(call.self))
        ELSE NotAValidSelector

IsDigit(c) == c \in 48..57

\* where the decimal point of `text` stands, or one past its end
PointAt(text) ==
    IF Contains(text, 46) THEN CHOOSE i \in 1..Len(text) :
                                    text[i] = 46 /\ \A j \in 1..(i - 1) : text[j] # 46
    ELSE Len(text) + 1

\* `text` is a decimal number: an optional minus sign, digits, and optionally
\* a point followed by digits
IsDecimal(text) ==
    LET body == IF text # <<>> /\ Head(text) = 45 THEN Tail(text) ELSE text
        point == PointAt(body)
    IN  /\ point > 1
        /\ point # Len(body)
        /\ \A i \in 1..Len(body) : i # point => IsDigit(body[i])

\* the number a sequence of digits writes
RECURSIVE DigitsValue(_)
DigitsValue(digits) ==
    IF digits = <<>> THEN 0
    ELSE 10 * DigitsValue(SubSeq(digits, 1, Len(digits) - 1))
         + (digits[Len(digits)] - 48)

\* a difference that has reached `cap` stays there whatever digits follow
Saturate(x, q) ==
    LET cap == 1000 * q
    IN  IF x > cap THEN cap ELSE IF x < -cap THEN -cap ELSE x

\* `err` / q is (value - digits read so far) * 10^(digits read); one more digit
RECURSIVE ErrorAfter(_, _, _, _)
ErrorAfter(err, sign, digits, q) ==
    IF digits = <<>> THEN err
    ELSE ErrorAfter(Saturate(10 * err - sign * (Head(digits) - 48) * q, q),
                    sign, Tail(digits), q)

RECURSIVE Pow10(_)
Pow10(k) == IF k = 0 THEN 1 ELSE 10 * Pow10(k - 1)

\* |val - text| <= 10^-PRECISION, for a decimal number `text`
WithinPrecision(val, text) ==
    LET sign == IF Head(text) = 45 THEN -1 ELSE 1
        body == IF Head(text) = 45 THEN Tail(text) ELSE text
        point == PointAt(body)
        whole == DigitsValue(SubSeq(body, 1, point - 1))
        digits == SubSeq(body, point + 1, Len(body))
        padded == digits \o [i \in 1..(PRECISION - Len(digits)) |-> 48]
        err == ErrorAfter(val.numer - sign * whole * val.denom, sign, padded,
                          val.denom)
        extra == Len(padded) - PRECISION
    IN  /\ Abs(err) < 1000 * val.denom
        /\ extra < 3 => Abs(err) <= val.denom * Pow10(extra)

\* C13: the text Display writes for a Number is a decimal number that differs
\* from the stored rational by at most 10^-10, for every Number: negative ones
\* with a fractional part and fractions of more than ten digits included.
C13_DisplayRoundTrip ==
    call.fn = "fmt" =>
        /\ IsDecimal(ret.text)
        /\ WithinPrecision(call.val, ret.text)

\* the unit a sum is printed in: the left one unless it is dimensionless
SumUnit(unit, unit2) == IF unit = UnitNone THEN unit2 ELSE unit

\* how many characters of `text` follow its decimal point
FractionDigits(text) ==
    IF Contains(text, 46) THEN Len(text) - PointAt(text) ELSE 0

\* `self + other` was evaluated for these two operands
Added(n, unit, n2, unit2) ==
    /\ call.fn = "add"
    /\ call.self.num = Some(from_integer(n)) /\ call.self.unit = unit
    /\ call.other.num = Some(from_integer(n2)) /\ call.other.unit = unit2

\* C14: the sum of two Dimensions with compatible units is the left number
\* plus the right number converted into the left unit, printed with at most 10
\* fractional digits and the left unit (the other unit when the left operand
\* is dimensionless): 1in + 1cm prints "1.3937007874in", 1in + 1pc
\* "1.1666666667in", 1px + 1px "2px", 10px + 10 and 10 + 10px "20px".
C14_UnitAddition ==
    /\ (call.fn = "add" /\ comparable(call.self.unit, call.other.unit)) =>
          LET unit == SumUnit(call.self.unit, call.other.unit)
              sum == add(call.self.num[1],
                         convert(call.other.num[1], call.other.unit, unit))
              digits == Len(ret.text) - Len(unit_fmt(unit))
              number == SubSeq(ret.text, 1, digits)
          IN  /\ ret.tag = "Ok"
              /\ digits > 0
              /\ SubSeq(ret.text, digits + 1, Len(ret.text)) = unit_fmt(unit)
              /\ IsDecimal(number)
              /\ FractionDigits(number) <= PRECISION
              /\ WithinPrecision(sum, number)
    /\ Added(1, UnitIn, 1, UnitCm)
          => ret = Ok(<<49, 46, 51, 57, 51, 55, 48, 48, 55, 56, 55, 52, 105, 110>>)
    /\ Added(1, UnitIn, 1, UnitPc)
          => ret = Ok(<<49, 46, 49, 54, 54, 54, 54, 54, 54, 54, 54, 55, 105, 110>>)
    /\ Added(1, UnitPx, 1, UnitPx) => ret = Ok(<<50, 112, 120>>)
    /\ Added(10, UnitPx, 10, UnitNone) => ret = Ok(<<50, 48, 112, 120>>)
    /\ Added(10, UnitNone, 10, UnitPx) => ret = Ok(<<50, 48, 112, 120>>)

\* what the escaper is to write for the i-th character of `text` when the
\* characters of `controls` are the ones escaped in hexadecimal; a double quote
\* gets a backslash when the text holds an apostrophe as well
EscapedPiece(text, i, controls) ==
    LET c == text[i]
    IN  CASE c \in controls ->
                <<Backslash>>
                \o (IF c < 16 THEN <<hex_char_for(c)>>
                    ELSE <<hex_char_for(c \div 16), hex_char_for(c % 16)>>)
                \o (IF i < Len(text)
                       /\ (is_ascii_hexdigit(text[i + 1])
                           \/ text[i + 1] \in {Space, Tab})
                    THEN <<Space>> ELSE <<>>)
          [] c = Backslash -> <<Backslash, Backslash>>
          [] c = DoubleQuote /\ Contains(text, Apostrophe) -> <<Backslash, DoubleQuote>>
          [] OTHER -> <<c>>

\* the serialized quoted string between its two delimiters
Escaped(text, controls) ==
    Concat([i \in 1..Len(text) |-> EscapedPiece(text, i, controls)])

Undelimited(text) == SubSeq(text, 2, Len(text) - 1)

\* C15 (as amended): the escaper writes every character of U+0000..U+001F
\* except the tab (U+0009) as a backslash and its code point in hexadecimal,
\* one digit below 16 and two from 16 on, then one space exactly when a next
\* character exists and is a hex digit, a space or a tab (none when the
\* control character is the last one); it copies a tab unchanged and writes a
\* backslash as two backslashes.
C15_ControlEscapes ==
    (/\ call.fn = "to_css_string"
     /\ call.self.kind = "String" /\ call.self.quote = "Quoted") =>
        /\ ret.tag = "Ok"
        /\ Len(ret.text) >= 2
        /\ Undelimited(ret.text) = Escaped(call.self.text, (0..31) \ {Tab})

\* U+001F before the letter a was serialized as "\1f a": two hex digits and
\* the separating space
C15_Witness ==
    /\ call.fn = "to_css_string"
    /\ call.self = String(<<31, 97>>, "Quoted")
    /\ ret = Ok(<<DoubleQuote, Backslash, 49, 102, Space, 97, DoubleQuote>>)

\* C15 (as stated): the same of every character of U+0000..U+001F, the tab
\* included.
C15_ControlEscapesStated ==
    (/\ call.fn = "to_css_string"
     /\ call.self.kind = "String" /\ call.self.quote = "Quoted") =>
        /\ ret.tag = "Ok"
        /\ Len(ret.text) >= 2
        /\ Undelimited(ret.text) = Escaped(call.self.text, 0..31)

\* C16: inspect renders an ArgList like a non-bracketed comma List once the
\* null elements are filtered out: "()" when it is empty, "(x,)" when exactly
\* one non-null element x is left, and the inspected non-null elements joined
\* with ", " otherwise; so an ArgList without null elements is inspected like
\* the non-bracketed comma List of its values, and no ArgList as "(,)".
C16_InspectArgList ==
    (call.fn = "inspect" /\ call.self.kind = "ArgList") =>
        LET args == call.self.items
            kept == SelectSeq(args, node_not_null)
            each == collect([i \in 1..Len(kept) |-> inspect(kept[i].node, call.span)])
            values == [i \in 1..Len(args) |-> args[i].node]
        IN  each.tag = "Ok" =>
                /\ args = <<>> => ret = Ok(<<40, 41>>)
                /\ Len(kept) = 1 => ret = Ok(<<40>> \o each.text[1] \o <<44, 41>>)
                /\ (args # <<>> /\ Len(kept) # 1)
                      => ret = Ok(Join(each.text, Text_comma_space))
                /\ Len(kept) = Len(args)
                      => ret = inspect(List(values, "Comma", "None"), call.span)
                /\ ret # Ok(<<40, 44, 41>>)

\* C17: not_equals(a, b) is true exactly when eq(a, b) is false, for every
\* pair of values: NaN-like Dimensions, a dimensionless number against one
\* with a unit, nested lists and an ArgList against a List included.
C17_NotEqualsNegatesEq ==
    call.fn = "not_equals" => ret = Bool(~eq(call.self, call.other))

\* the list of the list (4px 4px) was compared with the list of the list
\* (3pt 3pt): not_equals went through both levels and said false
C17_Witness ==
    /\ call.fn = "not_equals"
    /\ call.self = List(<<List(<<Dimension(Some(from_integer(4)), UnitPx, FALSE),
                                 Dimension(Some(from_integer(4)), UnitPx, FALSE)>>,
                               "Space", "None")>>, "Comma", "None")
    /\ call.other = List(<<List(<<Dimension(Some(from_integer(3)), UnitPt, FALSE),
                                  Dimension(Some(from_integer(3)), UnitPt, FALSE)>>,
                                "Space", "None")>>, "Comma", "None")
    /\ ret = Bool(FALSE)

\* exactly one of the two units is the dimensionless one
OneDimensionless(unit, unit2) == (unit = UnitNone) # (unit2 = UnitNone)

\* C18 (as amended): for two Dimensions that carry a number and have
\* compatible units cmp returns an Ordering, and that is Equal iff eq is true,
\* except when exactly one unit is dimensionless: then cmp compares the two
\* numbers as they are, Equal when they are the same, while eq is false.
C18_CmpAgreesWithEq ==
    (/\ call.fn = "cmp" /\ IsNumber(call.self) /\ IsNumber(call.other)
     /\ comparable(call.self.unit, call.other.unit)) =>
        /\ ret.tag = "Ok"
        /\ IF OneDimensionless(call.self.unit, call.other.unit)
           THEN /\ (ret.ordering = "Equal") <=> (call.self.num = call.other.num)
                /\ ~eq(call.self, call.other)
           ELSE (ret.ordering = "Equal") <=> eq(call.self, call.other)

\* 1px was compared with the dimensionless 1 and found Equal
C18_Witness ==
    /\ call.fn = "cmp"
    /\ call.self = Dimension(Some(One), UnitPx, FALSE)
    /\ call.other = Dimension(Some(One), UnitNone, FALSE)
    /\ ret = OkOrdering("Equal")

\* C18 (as stated): for two Dimensions that carry a number and have compatible
\* units, one of them dimensionless or not, cmp returns Equal iff eq is true.
C18_CmpAgreesWithEqStated ==
    (/\ call.fn = "cmp" /\ IsNumber(call.self) /\ IsNumber(call.other)
     /\ comparable(call.self.unit, call.other.unit)) =>
        ((ret = OkOrdering("Equal")) <=> eq(call.self, call.other))

\* how many backslashes stand right before the j-th character of `text`
BackslashesBefore(text, j) ==
    Cardinality({k \in 1..(j - 1) : \A m \in k..(j - 1) : text[m] = Backslash})

\* C19: the escaper restarts at most once and yields a well-delimited string:
\* it ends within two passes, the second pass is in forced-double-quote mode
\* and such a pass does not restart; nothing of an abandoned pass is in the
\* output, which is what the forced pass alone writes; the output starts and
\* ends with the same quote character, and between the two that character
\* stands only behind an escaping backslash.
C19_EscaperRestartsOnce ==
    call.fn = "visit_quoted_string" =>
        /\ ret.tag \in {"Pass", "Ok"}
        /\ ret.tag = "Pass" =>
              /\ ret.passes <= 1
              /\ (ret.passes = 1) <=> ret.force_double_quote
              /\ ret.buf = <<>>
              /\ ret.force_double_quote
                    => visit_quoted_string_pass(ret, call.string).tag = "Ok"
        /\ ret.tag = "Ok" =>
              LET out == ret.text
              IN  /\ ret.passes \in {1, 2}
                  /\ Len(out) >= 2
                  /\ out[1] \in {Apostrophe, DoubleQuote}
                  /\ out[Len(out)] = out[1]
                  /\ \A j \in 2..(Len(out) - 1) :
                        out[j] = out[1] => BackslashesBefore(out, j) % 2 = 1
                  /\ ret.passes = 2 =>
                        out = <<DoubleQuote>>
                              \o Escaped(call.string, (0..31) \ {Tab})
                              \o <<DoubleQuote>>

\* the string a'" took two passes and came out as "a'\"": the a and the
\* apostrophe of the abandoned pass are there once
C19_Witness ==
    /\ call.fn = "visit_quoted_string"
    /\ call.string = <<97, Apostrophe, DoubleQuote>>
    /\ ret = [tag |-> "Ok",
              text |-> <<DoubleQuote, 97, Apostrophe, Backslash, DoubleQuote,
                         DoubleQuote>>,
              passes |-> 2]

===========================================================================
